---- MODULE Spec2Model ----
(***************************************************************************)
(* A state-machine model of the "coiled" reactive state container          *)
(* (bennetthardwick/recoil-clone, src/example/index.tsx lines 270-411):    *)
(* Stateful cells with an insertion-ordered Set of listeners, Atom with    *)
(* setState, Selector with lazily discovered dependencies, and the         *)
(* useCoiledValue binding.                                                  *)
(*                                                                         *)
(* JavaScript is single threaded and every call is synchronous.  The call  *)
(* stack of nested emit loops is explicit in the variable stack: while it  *)
(* is not empty the only enabled actions are EmitNext and EmitDone, which  *)
(* continue the innermost loop, so no external operation interleaves with  *)
(* a cascade.  An exception (a generator that throws, or the exhaustion of *)
(* the engine's call stack by unbounded re-entrancy) is caught nowhere in  *)
(* the library and unwinds the whole stack to the external caller.         *)
(***************************************************************************)
EXTENDS Integers, Sequences, FiniteSets, TLC

\* ------------------------------------------------------------- bounds
\* Values held by atoms are 0..MaxVal (distinct numbers are distinct references).
MaxVal == 2
\* Nested emit loops the engine's call stack holds before a RangeError.
MaxDepth == 4
\* Disconnect handles external code obtains from subscribe and keeps.
MaxHandles == 2

\* `undefined`: the value a Selector holds before its constructor assigns one.
Undef == -1

Atoms == {"A", "B"}
Selectors == {"S1", "S2", "D", "T"}
Cells == Atoms \cup Selectors
Components == {"c1", "c2"}
Val == 0..MaxVal
None == "-"
\* A component whose effect holds no subscription.
Unmounted == [cell |-> None, cb |-> <<>>]

\* The bodies external callbacks have: n does nothing, r1 and r2 call setState
\* (1 resp. 2) on the cell that notifies them, d invokes the disconnect handle
\* returned most recently, s subscribes the callback n of the cell.
ExtKinds == {"n", "r1", "r2", "d", "s"}
\* Cells external callbacks subscribe to.
ExtCells == {"A"}
\* Cells a component binds to: c1 calls useCoiledValue, which takes any
\* Stateful, and c2 calls useCoiledState, which takes an Atom.
BindCells(c) == IF c = "c1" THEN {"B", "D", "T"} ELSE {"B"}

VARIABLES
  value,           \* Stateful.value of every cell
  listeners,       \* Stateful.listeners of every cell: a Set, in insertion order
  registeredDeps,  \* Selector.registeredDeps
  status,          \* per selector: "none" (not constructed), "ready", "zombie"
  stack,           \* the emit loops in progress, innermost last
  handles,         \* the Disconnect objects external code holds
  mounted,         \* per component: the cell and callback of its effect
  call,            \* history: the external operation running or run last
  passes,          \* history: the emit passes of that operation, by start order
  log,             \* history: the listener invocations of that operation
  gens,            \* history: the runs of each generator in that operation
  err,             \* history: how that operation ended
  threw            \* history: some setState call ended with an exception

vars == <<value, listeners, registeredDeps, status, stack, handles, mounted,
          call, passes, log, gens, err, threw>>

\* --------------------------------------------------- listener identities
\* Every evaluation of an arrow function makes a new function object, so the
\* closures of one owner are told apart by a serial number: the number of
\* closures of that owner already in the Set they are added to, plus one.
\* () => this.updateSelector(), created by addDep of selector s
hook(s, n) == <<"hook", s, n>>
\* One callback shared by all components instead of one per effect.
binding_Shared(c, n) == <<"bind", "c1", 1>>
\* () => updateState({}), created by the effect of component c
binding(c, n) == <<"bind", c, n>>
\* A callback of external code, of body k: one function object per body.
callback(k) == <<"ext", k, 1>>

\* ------------------------------------------------ the JavaScript Set
Has(set, x) == \E i \in 1..Len(set) : set[i] = x
\* An add that moves a member the Set holds already to the end.
SetAdd_Move(set, x) == Append(SelectSeq(set, LAMBDA y : y # x), x)
SetAdd(set, x) == IF Has(set, x) THEN set ELSE Append(set, x)
SetDelete(set, x) == SelectSeq(set, LAMBDA y : y # x)
\* The members of kind and owner: the closures an owner has in the Set.
Owned(set, kind, owner) ==
  SelectSeq(set, LAMBDA y : y[1] = kind /\ y[2] = owner)

\* The machine state the operations below transform.
Cur ==
  [value |-> value, listeners |-> listeners, registeredDeps |-> registeredDeps,
   stack |-> stack, handles |-> handles, passes |-> passes, log |-> log,
   gens |-> gens, err |-> err, threw |-> threw]

\* The same at the start of an external operation: its history is empty.
Fresh ==
  [Cur EXCEPT !.passes = <<>>, !.log = <<>>, !.err = "none",
              !.gens = [s \in Selectors |-> 0]]

Commit(m) ==
  /\ value' = m.value
  /\ listeners' = m.listeners
  /\ registeredDeps' = m.registeredDeps
  /\ stack' = m.stack
  /\ handles' = m.handles
  /\ passes' = m.passes
  /\ log' = m.log
  /\ gens' = m.gens
  /\ err' = m.err
  /\ threw' = m.threw

\* An exception nobody catches: every emit loop in progress is abandoned.
Throw(m, e) == [m EXCEPT !.stack = <<>>, !.err = e, !.threw = TRUE]

\* ------------------------------------------------------------ Stateful
snapshot(m, cell) == m.value[cell]

subscribe(m, cell, cb) == [m EXCEPT !.listeners[cell] = SetAdd(@, cb)]

\* A disconnect that deletes nothing.
disconnect_Keep(m, cell, cb) == m

disconnect(m, cell, cb) == [m EXCEPT !.listeners[cell] = SetDelete(@, cb)]

\* The loop of emit over the live Set instead of a copy of it.
iterated_Live(m, f) == m.listeners[f.cell]

\* Array.from(this.listeners): the array the loop of emit iterates.
iterated(m, f) == f.arr

\* emit: the loop starts over a copy of the listeners.
emit(m, cell) ==
  [m EXCEPT
     !.stack = Append(@, [cell |-> cell, arr |-> m.listeners[cell], i |-> 1,
                          id |-> Len(m.passes) + 1]),
     !.passes = Append(@, [cell |-> cell, begin |-> m.listeners[cell],
                           done |-> FALSE])]

\* update without the comparison: every call assigns and emits.
update_NoGate(m, cell, v, early) ==
  IF Len(m.stack) >= MaxDepth THEN Throw([m EXCEPT !.value[cell] = v], "RangeError")
  ELSE emit([m EXCEPT !.value[cell] = v], cell)

\* update: reference inequality gates the assignment and the emit.  With the
\* call stack exhausted the RangeError is raised by the engine either at the
\* call of update (early) or at a call made after the assignment.
update(m, cell, v, early) ==
  IF m.value[cell] = v THEN m
  ELSE IF Len(m.stack) >= MaxDepth
       THEN IF early THEN Throw(m, "RangeError")
            ELSE Throw([m EXCEPT !.value[cell] = v], "RangeError")
       ELSE emit([m EXCEPT !.value[cell] = v], cell)

\* ---------------------------------------------------------------- Atom
setState(m, atom, v, early) == update(m, atom, v, early)

\* ------------------------------------------------------------ Selector
\* addDep that registers the dependency and does not subscribe to it.
addDep_NoSubscribe(m, s, dep) ==
  [m EXCEPT !.registeredDeps[s] = @ \cup {dep}]

\* addDep that subscribes and does not register the dependency.
addDep_Forget(m, s, dep) ==
  IF dep \in m.registeredDeps[s] THEN m
  ELSE subscribe(m, dep, hook(s, Len(Owned(m.listeners[dep], "hook", s)) + 1))

\* addDep: subscribe to dep unless registered; the value read is dep.snapshot().
addDep(m, s, dep) ==
  IF dep \in m.registeredDeps[s] THEN m
  ELSE [subscribe(m, dep, hook(s, Len(Owned(m.listeners[dep], "hook", s)) + 1))
          EXCEPT !.registeredDeps[s] = @ \cup {dep}]

RECURSIVE addDeps(_, _, _)
addDeps(m, s, reads) ==
  IF reads = <<>> THEN m
  ELSE addDeps(addDep(m, s, Head(reads)), s, Tail(reads))

\* The generators of the selectors: the cells get is called on, in order, and
\* the value returned or the fact that the generator throws.
\*   S1: get(A)
\*   S2: get(A) > 0 ? get(A) : 0
\*   D : get(S1) === get(S2) ? 0 : 1
\*   T : x = get(A); if (!x) return 0; y = get(B); if (x > 1) throw; return y
generate(s, val) ==
  CASE s = "S1" -> [reads |-> <<"A">>, thrown |-> FALSE, result |-> val["A"]]
    [] s = "S2" -> IF val["A"] > 0
                   THEN [reads |-> <<"A", "A">>, thrown |-> FALSE, result |-> val["A"]]
                   ELSE [reads |-> <<"A">>, thrown |-> FALSE, result |-> 0]
    [] s = "D"  -> [reads |-> <<"S1", "S2">>, thrown |-> FALSE,
                    result |-> IF val["S1"] = val["S2"] THEN 0 ELSE 1]
    [] s = "T"  -> IF val["A"] = 0
                   THEN [reads |-> <<"A">>, thrown |-> FALSE, result |-> 0]
                   ELSE [reads |-> <<"A", "B">>, thrown |-> val["A"] > 1,
                         result |-> val["B"]]

\* A run of the generator that afterwards disconnects the selector from the
\* cells the run did not read.
runGenerator_Prune(m, s) ==
  LET reads == generate(s, m.value).reads
      read == {reads[i] : i \in 1..Len(reads)}
      m1 == addDeps(m, s, reads)
  IN [m1 EXCEPT
        !.gens[s] = @ + 1,
        !.registeredDeps[s] = read,
        !.listeners = [c \in Cells |->
           IF c \in read THEN m1.listeners[c]
           ELSE SelectSeq(m1.listeners[c],
                          LAMBDA l : ~(l[1] = "hook" /\ l[2] = s))]]

\* this.generate({ get: dep => this.addDep(dep) }): one run of the generator,
\* up to its return or throw; every get it makes goes through addDep.
runGenerator(m, s) ==
  [addDeps(m, s, generate(s, m.value).reads) EXCEPT !.gens[s] = @ + 1]

\* updateSelector: run the generator, then update with its result.
updateSelector(m, s, early) ==
  LET g == generate(s, m.value)
      m1 == runGenerator(m, s)
  IN IF g.thrown THEN Throw(m1, "GeneratorError")
     ELSE update(m1, s, g.result, early)

\* ------------------------------------------------- external callbacks
callbackBody(m, k, cell, early) ==
  CASE k = "n"  -> m
    [] k = "r1" -> setState(m, cell, 1, early)
    [] k = "r2" -> setState(m, cell, 2, early)
    [] k = "d"  -> LET h == m.handles[Len(m.handles)] IN
                   [disconnect(m, h.cell, h.cb) EXCEPT
                      !.handles[Len(m.handles)].used = TRUE]
    [] k = "s"  -> subscribe(m, cell, callback("n"))

\* What calling listener l of cell does.
invoke(m, l, cell, early) ==
  CASE l[1] = "hook" -> updateSelector(m, l[2], early)
    [] l[1] = "bind" -> m
    [] l[1] = "ext"  -> callbackBody(m, l[2], cell, early)

\* ------------------------------------------------------------- state
Init ==
  /\ value = [c \in Cells |-> IF c \in Atoms THEN 0 ELSE Undef]
  /\ listeners = [c \in Cells |-> <<>>]
  /\ registeredDeps = [s \in Selectors |-> {}]
  /\ status = [s \in Selectors |-> "none"]
  /\ stack = <<>>
  /\ handles = <<>>
  /\ mounted = [c \in Components |-> Unmounted]
  /\ call = [op |-> "init", c |-> None, n |-> 0, k |-> None, size |-> 0,
             had |-> FALSE]
  /\ passes = <<>>
  /\ log = <<>>
  /\ gens = [s \in Selectors |-> 0]
  /\ err = "none"
  /\ threw = FALSE

Idle == stack = <<>>

\* A cell external code holds a reference to.
Exists(cell) == IF cell \in Atoms THEN TRUE ELSE status[cell] = "ready"

\* The cells a generator names must exist when the selector is created.
Scope(s) == IF s = "D" THEN {"S1", "S2"} ELSE {}

\* ------------------------------------------------------------ actions
\* atom.setState(v), called by external code.
SetState(a, v) ==
  /\ Idle
  /\ Commit(setState(Fresh, a, v, FALSE))
  /\ call' = [op |-> "setState", c |-> a, n |-> v, k |-> None,
              size |-> Len(listeners[a]), had |-> FALSE]
  /\ UNCHANGED <<status, mounted>>

\* The loop of emit calls its next listener with this.snapshot().
EmitNext ==
  /\ ~Idle
  /\ LET f == stack[Len(stack)]
         arr == iterated(Cur, f)
     IN /\ f.i <= Len(arr)
        /\ \E early \in BOOLEAN :
             LET l == arr[f.i]
                 m1 == [Cur EXCEPT
                          !.stack[Len(stack)].i = f.i + 1,
                          !.log = Append(@, [pass |-> f.id, l |-> l,
                                             v |-> snapshot(Cur, f.cell)])]
             IN Commit(invoke(m1, l, f.cell, early))
  /\ UNCHANGED <<status, mounted, call>>

\* The loop of emit ends and emit returns.
EmitDone ==
  /\ ~Idle
  /\ LET f == stack[Len(stack)]
     IN /\ f.i > Len(iterated(Cur, f))
        /\ stack' = SubSeq(stack, 1, Len(stack) - 1)
        /\ passes' = [passes EXCEPT ![f.id].done = TRUE]
  /\ UNCHANGED <<value, listeners, registeredDeps, status, handles, mounted,
                 call, log, gens, err, threw>>

\* new Selector(generate): the generator runs once and its result is assigned
\* to this.value directly.  A generator that throws leaves no object, but the
\* hooks its reads subscribed stay in the listeners of the cells read.
Construct(s) ==
  /\ Idle
  /\ status[s] = "none"
  /\ \A d \in Scope(s) : Exists(d)
  /\ LET g == generate(s, value)
         m1 == runGenerator(Fresh, s)
     IN IF g.thrown
        THEN /\ Commit([m1 EXCEPT !.err = "GeneratorError"])
             /\ status' = [status EXCEPT ![s] = "zombie"]
        ELSE /\ Commit([m1 EXCEPT !.value[s] = g.result])
             /\ status' = [status EXCEPT ![s] = "ready"]
  /\ call' = [op |-> "construct", c |-> s, n |-> 0, k |-> None,
              size |-> Len(listeners[s]), had |-> FALSE]
  /\ UNCHANGED mounted

\* cell.subscribe(cb) by external code, which keeps the handle returned.
Subscribe(cell, k) ==
  /\ Idle
  /\ Exists(cell)
  /\ Len(handles) < MaxHandles
  /\ Commit([subscribe(Fresh, cell, callback(k)) EXCEPT
               !.handles = Append(@, [cell |-> cell, cb |-> callback(k),
                                      used |-> FALSE])])
  /\ call' = [op |-> "subscribe", c |-> cell, n |-> Len(handles) + 1, k |-> k,
              size |-> Len(listeners[cell]),
              had |-> Has(listeners[cell], callback(k))]
  /\ UNCHANGED <<status, mounted>>

\* handle.disconnect() by external code, for a handle it holds.
Disconnect(h) ==
  /\ Idle
  /\ h \in 1..Len(handles)
  /\ Commit([disconnect(Fresh, handles[h].cell, handles[h].cb) EXCEPT
               !.handles[h].used = TRUE])
  /\ call' = [op |-> "disconnect", c |-> handles[h].cell, n |-> h,
              k |-> handles[h].cb[2], size |-> Len(listeners[handles[h].cell]),
              had |-> handles[h].used]
  /\ UNCHANGED <<status, mounted>>

\* useCoiledValue (also through useCoiledState): the effect of a mounting
\* component subscribes.
Mount(c, cell) ==
  /\ Idle
  /\ mounted[c] = Unmounted
  /\ cell \in BindCells(c)
  /\ Exists(cell)
  /\ Commit(subscribe(Fresh, cell,
                      binding(c, Len(Owned(listeners[cell], "bind", c)) + 1)))
  /\ mounted' = [mounted EXCEPT ![c] = [cell |-> cell,
                   cb |-> binding(c, Len(Owned(listeners[cell], "bind", c)) + 1)]]
  /\ call' = [op |-> "mount", c |-> cell, n |-> 0, k |-> c,
              size |-> Len(listeners[cell]), had |-> FALSE]
  /\ UNCHANGED status

\* useCoiledValue: the cleanup of the effect disconnects.
Unmount(c) ==
  /\ Idle
  /\ mounted[c] # Unmounted
  /\ Commit(disconnect(Fresh, mounted[c].cell, mounted[c].cb))
  /\ mounted' = [mounted EXCEPT ![c] = Unmounted]
  /\ call' = [op |-> "unmount", c |-> mounted[c].cell, n |-> 0, k |-> c,
              size |-> Len(listeners[mounted[c].cell]), had |-> FALSE]
  /\ UNCHANGED status

\* The operations of external code that builds selectors and binds components.
Next ==
  \/ \E a \in Atoms, v \in Val : SetState(a, v)
  \/ EmitNext
  \/ EmitDone
  \/ \E s \in Selectors : Construct(s)
  \/ \E c \in Components, cell \in Cells : Mount(c, cell)
  \/ \E c \in Components : Unmount(c)

Spec == Init /\ [][Next]_vars

\* The operations of external code that subscribes callbacks of its own to the
\* atom A, keeps their disconnect handles, sets A, and builds the selectors
\* ExtSelectors.
ExtSelectors == {"T"}

NextExt ==
  \/ \E a \in ExtCells, v \in Val : SetState(a, v)
  \/ EmitNext
  \/ EmitDone
  \/ \E s \in ExtSelectors : Construct(s)
  \/ \E cell \in ExtCells, k \in ExtKinds : Subscribe(cell, k)
  \/ \E h \in 1..MaxHandles : Disconnect(h)

SpecExt == Init /\ [][NextExt]_vars

\* ------------------------------------------------------------- claims
NoGens == [s \in Selectors |-> 0]

\* C1 (no-op update): an external setState(v) on an atom whose value is v
\* changes no value, no listener set and no dependency set, starts no emit
\* pass, invokes no listener and runs no generator.
C1_NoOpUpdate ==
  [][(Idle /\ call'.op = "setState" /\ value[call'.c] = call'.n)
       => /\ value' = value
          /\ listeners' = listeners
          /\ registeredDeps' = registeredDeps
          /\ stack' = <<>>
          /\ passes' = <<>>
          /\ log' = <<>>
          /\ gens' = NoGens
          /\ err' = "none"]_vars

\* A setState that changed nothing returned, on an atom that has a binding and
\* a selector hook subscribed, with a bound selector downstream.
C1_Witness ==
  /\ Idle
  /\ call.op = "setState"
  /\ call.c = "B"
  /\ call.n = 1
  /\ passes = <<>>
  /\ Len(Owned(listeners["B"], "bind", "c2")) = 1
  /\ Len(Owned(listeners["B"], "hook", "T")) = 1
  /\ Len(listeners["T"]) = 1

\* The listeners pass p has invoked so far, in order.
Invoked(p) ==
  LET es == SelectSeq(log, LAMBDA e : e.pass = p)
  IN [i \in 1..Len(es) |-> es[i].l]

\* How often the passes of cell have invoked listener l in this operation.
CountBy(cell, l) ==
  Len(SelectSeq(log, LAMBDA e : passes[e.pass].cell = cell /\ e.l = l))

\* How often pass p has invoked listener l.
CountIn(p, l) == Len(SelectSeq(log, LAMBDA e : e.pass = p /\ e.l = l))

PassesOf(cell) == {p \in DOMAIN passes : passes[p].cell = cell}

NoDup(seq) == \A i, j \in 1..Len(seq) : seq[i] = seq[j] => i = j

IsPrefix(a, b) == Len(a) <= Len(b) /\ a = SubSeq(b, 1, Len(a))

\* The external setState that ran last changed the value of its atom.
Returned == Idle /\ call.op = "setState" /\ passes # <<>>

C5_Original ==
  [][(Idle /\ call.op = "subscribe" /\ call'.op = "disconnect"
        /\ call'.n = call.n)
       => /\ ~Has(listeners'[call.c], callback(call.k))
          /\ Len(listeners'[call.c]) = call.size]_vars

\* C5 as amended: after subscribe(cb) followed by the returned handle's
\* disconnect, cb is not subscribed, so no later pass of the cell invokes it
\* (a pass invokes only listeners subscribed when it began); the subscriber
\* set has its size from before the subscribe when cb was not subscribed
\* before that call, and one less when it was.
C5_Unsubscribe ==
  /\ [][(Idle /\ call.op = "subscribe" /\ call'.op = "disconnect"
           /\ call'.n = call.n)
          => /\ ~Has(listeners'[call.c], callback(call.k))
             /\ Len(listeners'[call.c]) =
                  call.size - (IF call.had THEN 1 ELSE 0)]_vars
  /\ [](\A i \in 1..Len(log) : Has(passes[log[i].pass].begin, log[i].l))

\* The handle of a second subscribe of an already subscribed callback was
\* invoked right after that subscribe.
C5_Witness ==
  /\ Idle
  /\ call.op = "disconnect"
  /\ call.n = 2
  /\ handles[1].cb = handles[2].cb
  /\ ~handles[1].used
  /\ call.size = 2

\* C6 (double disconnect): invoking a handle that was invoked before raises
\* no error and leaves the subscriber set of its cell unchanged.
C6_DoubleDisconnect ==
  [][(Idle /\ call'.op = "disconnect" /\ call'.had)
       => /\ listeners' = listeners
          /\ err' = "none"]_vars

Reentrant(l) == l[1] = "ext" /\ l[2] \in {"r1", "r2"}

\* The passes in which a subscriber that calls setState on the notifying cell
\* has been invoked.
ReentrantPasses ==
  {p \in DOMAIN passes : \E i \in 1..Len(log) :
     log[i].pass = p /\ Reentrant(log[i].l)}

\* The value the setState of a re-entrant subscriber sets.
Target(l) == IF l[2] = "r1" THEN 1 ELSE 2

\* The passes in which a subscriber's setState on the notifying cell has
\* changed the value of the cell.
ChangingPasses ==
  {p \in DOMAIN passes : \E i \in 1..Len(log) :
     log[i].pass = p /\ Reentrant(log[i].l) /\ log[i].v # Target(log[i].l)}

Range(seq) == {seq[i] : i \in 1..Len(seq)}

Ready(s) == status[s] = "ready"

\* C3 (quiescent consistency): when no emit is in progress and no setState
\* call has ended with an exception, the value of every selector is the result
\* of its generator on the current values of the cells.
C3_QuiescentConsistency ==
  (Idle /\ ~threw) =>
    \A s \in Selectors :
      Ready(s) => /\ ~generate(s, value).thrown
                  /\ snapshot(Cur, s) = generate(s, value).result

\* All four selectors exist and a setState on B has propagated to T, which
\* reads B only because A is 1; D reads selectors, S1 reads an atom.
C3_Witness ==
  /\ Returned
  /\ ~threw
  /\ call.c = "B"
  /\ \A s \in Selectors : Ready(s)
  /\ value["A"] = 1
  /\ value["T"] = 2
  /\ gens["T"] = 1

\* The hooks selector s has in the listeners of cell.
Hooks(ls, s, cell) == Len(Owned(ls[cell], "hook", s))

\* C4 (derived initialization): a construction that succeeds runs the
\* generator once, assigns its result on the current values to the selector
\* and changes no other value, subscribes one hook to each cell the generator
\* read and to no other cell, removes no listener, and starts no emit pass.
C4_DerivedInitialization ==
  [][(Idle /\ call'.op = "construct" /\ status[call'.c] = "none"
        /\ status'[call'.c] = "ready")
       => LET s == call'.c
              g == generate(s, value)
          IN /\ ~g.thrown
             /\ value' = [value EXCEPT ![s] = g.result]
             /\ gens' = [NoGens EXCEPT ![s] = 1]
             /\ registeredDeps'[s] = Range(g.reads)
             /\ \A c \in Cells :
                  /\ Hooks(listeners', s, c) = IF c \in Range(g.reads) THEN 1 ELSE 0
                  /\ Len(listeners'[c]) = Len(listeners[c]) + Hooks(listeners', s, c)
                  /\ IsPrefix(listeners[c], listeners'[c])
             /\ stack' = <<>>
             /\ passes' = <<>>
             /\ log' = <<>>
             /\ err' = "none"]_vars

\* T was constructed while A is 1 and B is 2, so that its generator read both
\* atoms, and B had a bound component at the time.
C4_Witness ==
  /\ Idle
  /\ call.op = "construct"
  /\ call.c = "T"
  /\ Ready("T")
  /\ registeredDeps["T"] = {"A", "B"}
  /\ value["T"] = 2
  /\ Len(listeners["B"]) = 2

\* C7 (idempotent subscription): in every state a selector has one hook in the
\* listeners of each cell it has read and none elsewhere, so that the first
\* read of a cell adds one hook and no later read adds another; no pass
\* invokes two hooks of one selector; a dependency once registered stays.
C7_IdempotentSubscription ==
  /\ [](\A s \in Selectors, c \in Cells :
          Hooks(listeners, s, c) = IF c \in registeredDeps[s] THEN 1 ELSE 0)
  /\ [](\A p \in DOMAIN passes, s \in Selectors :
          Len(SelectSeq(log, LAMBDA e : e.pass = p /\ e.l[1] = "hook"
                                         /\ e.l[2] = s)) <= 1)
  /\ [][\A s \in Selectors : registeredDeps[s] \subseteq registeredDeps'[s]]_vars

\* S2, whose generator reads A twice in one run, and T were recomputed by a
\* setState on A; each has still one hook on A.
C7_Witness ==
  /\ Returned
  /\ err = "none"
  /\ call.c = "A"
  /\ value["A"] = 1
  /\ gens["S2"] = 1
  /\ gens["T"] = 1
  /\ Hooks(listeners, "S2", "A") = 1
  /\ Hooks(listeners, "T", "A") = 1
  /\ registeredDeps["T"] = {"A", "B"}

\* The subscriptions of bindings on cell.
Bindings(cell) == Len(SelectSeq(listeners[cell], LAMBDA l : l[1] = "bind"))

\* C8 (binding lifecycle): on every cell the number of binding subscriptions
\* is the number of mounted components bound to it.
C8_BindingLifecycle ==
  \A cell \in Cells :
    Bindings(cell) = Cardinality({c \in Components : mounted[c].cell = cell})

\* Both components were mounted on B, then one was unmounted.
C8_Witness ==
  /\ call.op = "unmount"
  /\ call.c = "B"
  /\ call.size = 2
  /\ Bindings("B") = 1
  /\ mounted["c1"] = Unmounted
  /\ mounted["c2"].cell = "B"

\* C10 (generator failure): when the generator of a selector throws in a
\* recomputation, the exception unwinds to the caller of setState, and the
\* value of the selector, its dependencies and its subscriptions are what they
\* were before the recomputation, and no pass of the selector starts.
C10_GeneratorFailure ==
  [][(~Idle /\ err' = "GeneratorError")
       => LET s == log'[Len(log')].l[2]
          IN /\ stack' = <<>>
             /\ value' = value
             /\ passes' = passes
             /\ registeredDeps'[s] = registeredDeps[s]
             /\ listeners' = listeners]_vars

\* How often the hooks of selector s have been invoked in this operation.
HookCalls(s) ==
  Len(SelectSeq(log, LAMBDA e : e.l[1] = "hook" /\ e.l[2] = s))

\* The passes of the cells selector s is subscribed to.
DepPasses(s) == {p \in DOMAIN passes : passes[p].cell \in registeredDeps[s]}

\* C11 as stated (one recomputation per update cycle): during one external
\* setState call the generator of every selector runs at most once.
C11_Original ==
  call.op = "setState" => \A s \in Selectors : gens[s] <= 1

\* C11 as amended: during one external setState call the generator of a
\* selector runs once per notification the selector receives, and it receives
\* at most one per pass of a cell it is subscribed to; a selector whose only
\* dependency is the atom set runs at most once, unless a subscriber sets the
\* atom again during the call.
C11_OncePerNotification ==
  call.op = "setState" =>
    \A s \in Selectors :
      /\ gens[s] = HookCalls(s)
      /\ gens[s] <= Cardinality(DepPasses(s))
      /\ (registeredDeps[s] = {call.c} /\ Cardinality(PassesOf(call.c)) <= 1)
           => gens[s] <= 1

\* One setState on A ran the generators of S1 and S2 once each and the
\* generator of D, which reads S1 and S2, twice.
C11_Witness ==
  /\ Returned
  /\ err = "none"
  /\ call.c = "A"
  /\ gens["S1"] = 1
  /\ gens["S2"] = 1
  /\ gens["D"] = 2
  /\ Cardinality(DepPasses("D")) = 2


\* Every pass of this operation has ended after invoking, in order, exactly
\* the listeners subscribed when it began.
CascadeFinished ==
  \A p \in DOMAIN passes : passes[p].done /\ Invoked(p) = passes[p].begin

\* No cell has more listeners than this: a hook per selector, a binding per
\* component and a callback per body.
MostListeners ==
  Cardinality(Selectors) + Cardinality(Components) + Cardinality(ExtKinds)

\* The work the emit loops in progress have left, as a number: the loop at
\* depth k contributes the digit 1 + the listeners it has still to call, the
\* outermost loop the most significant digit.
RECURSIVE Rank(_, _)
Rank(m, k) ==
  IF k > Len(m.stack) THEN 0
  ELSE (Len(iterated(m, m.stack[k])) - m.stack[k].i + 2)
         * (MostListeners + 2) ^ (MaxDepth - k)
       + Rank(m, k + 1)

\* The invocations of subscribers whose setState changed the notifying cell.
ChangingCalls ==
  SelectSeq(log, LAMBDA e : Reentrant(e.l) /\ e.v # Target(e.l))

\* C12 as stated (synchronous completion): every setState call terminates,
\* so that none runs until the call stack is exhausted, also with subscribers
\* that call setState re-entrantly; and when it has returned, every pass it
\* started has invoked its subscribers and ended.
C12_Original ==
  (Idle /\ call.op = "setState") =>
    /\ err # "RangeError"
    /\ err = "none" => CascadeFinished

\* C12 as amended: every setState call ends, by returning or with an exception
\* (a generator that throws, or the call stack exhausted by subscribers that
\* keep setting different values): every step of a cascade lowers the work
\* left, a natural number.  When the call has returned, every pass it started
\* has invoked its subscribers and ended, and the atom had one pass more than
\* the changing setState calls its subscribers made; when it ended with an
\* exception no loop is left to be resumed.
C12_SynchronousCompletion ==
  /\ [][~Idle => Rank([stack |-> stack', listeners |-> listeners'], 1)
                   < Rank([stack |-> stack, listeners |-> listeners], 1)]_vars
  /\ [](Len(stack) <= MaxDepth /\ \A k \in 1..Len(stack) :
          /\ stack[k].i <= Len(iterated(Cur, stack[k])) + 1
          /\ Len(iterated(Cur, stack[k])) <= MostListeners)
  /\ []((Idle /\ call.op = "setState" /\ err = "none")
          => /\ CascadeFinished
             /\ passes # <<>> =>
                  Cardinality(PassesOf(call.c)) = Len(ChangingCalls) + 1)
  /\ [](err # "none" => Idle)

\* A setState of 2 on A returned: r1 set A to 1 in the outer pass, which
\* started a nested pass; the selector T recomputed in both.
C12_Witness ==
  /\ Returned
  /\ err = "none"
  /\ call.c = "A"
  /\ call.n = 2
  /\ CascadeFinished
  /\ Cardinality(PassesOf("A")) = 2
  /\ gens["T"] = 2


\* C13 (snapshot iteration): a pass invokes the callbacks that were in the
\* listeners of its cell when it began, in that order and each once, and has
\* invoked them all when it ends: a callback subscribed during the pass is not
\* invoked by it, one disconnected during the pass still is.  A pass that
\* begins takes the listeners of that moment, so that a callback disconnected
\* before is not in it.
C13_SnapshotIteration ==
  /\ [](\A p \in DOMAIN passes :
          /\ IsPrefix(Invoked(p), passes[p].begin)
          /\ passes[p].done => Invoked(p) = passes[p].begin)
  /\ [][\A p \in DOMAIN passes' :
          IF ~Idle /\ p \in DOMAIN passes
          THEN passes'[p].begin = passes[p].begin
          ELSE passes'[p].begin = listeners'[passes'[p].cell]]_vars

\* A pass of A over the callbacks d and s has ended: d disconnected s, which
\* was invoked all the same and subscribed n, which was not.
C13_Witness ==
  /\ Returned
  /\ err = "none"
  /\ passes[1].begin = <<callback("d"), callback("s")>>
  /\ passes[1].done
  /\ Invoked(1) = passes[1].begin
  /\ listeners["A"] = <<callback("d"), callback("n")>>


\* The listener invoked last in this operation.
LastInvoked == log[Len(log)].l

C15_PropagationStops ==
  /\ [][(~Idle /\ log' # log /\ log'[Len(log')].l[1] = "hook")
          => LET s == log'[Len(log')].l[2]
                 g == generate(s, value)
             IN \/ g.thrown
                \/ /\ g.result = value[s]
                   /\ value' = value
                   /\ passes' = passes
                   /\ Len(stack') = Len(stack)
                   /\ Len(log') = Len(log) + 1
                \/ /\ g.result # value[s]
                   /\ value' = [value EXCEPT ![s] = g.result]
                   /\ passes' = Append(passes, [cell |-> s,
                                                begin |-> listeners'[s],
                                                done |-> FALSE])
                   /\ stack'[Len(stack')].cell = s]_vars
  /\ [](Idle => \A p \in DOMAIN passes :
          passes[p].cell \in Selectors
            => passes[p].done /\ Invoked(p) = passes[p].begin)

\* A setState on A returned: T, which has a binding, recomputed to the value it
\* held and began no pass; S1 changed and its pass invoked the hook of D.
C15_Witness ==
  /\ Returned
  /\ err = "none"
  /\ call.c = "A"
  /\ gens["T"] = 1
  /\ mounted["c1"].cell = "T"
  /\ PassesOf("T") = {}
  /\ \E p \in PassesOf("S1") : Invoked(p) = <<hook("D", 1)>>


\* C16 (dependency set only grows): no step removes a cell from the
\* dependencies of a selector, whatever the later runs of the generator read,
\* and a hook of the selector is in the listeners of each of them; so when a
\* setState that changed an atom has returned, every selector that ever read
\* the atom has run its generator in that call.
C16_DependenciesGrow ==
  /\ [][\A s \in Selectors : registeredDeps[s] \subseteq registeredDeps'[s]]_vars
  /\ [](\A s \in Selectors : \A c \in registeredDeps[s] :
          \E i \in 1..Len(listeners[c]) :
             listeners[c][i][1] = "hook" /\ listeners[c][i][2] = s)
  /\ []((Returned /\ err = "none")
          => \A s \in Selectors : call.c \in registeredDeps[s] => gens[s] = 1)

\* T read B while A was 1; A is 0 now, so that the generator of T reads A
\* only, and a setState on B has run the generator of T all the same.
C16_Witness ==
  /\ Returned
  /\ err = "none"
  /\ call.c = "B"
  /\ Ready("T")
  /\ value["A"] = 0
  /\ generate("T", value).reads = <<"A">>
  /\ registeredDeps["T"] = {"A", "B"}
  /\ Hooks(listeners, "T", "B") = 1
  /\ gens["T"] = 1


\* C17 (notification order): the listeners of a cell are ordered by
\* subscription: a step keeps the order of the callbacks that stay and puts a
\* callback it subscribes last, whether it was never subscribed or
\* disconnected before, and leaves a callback subscribed again while
\* subscribed where it is.  A pass invokes the callbacks in the order they had
\* in the listeners when it began.
C17_NotificationOrder ==
  /\ [][\A c \in Cells :
          LET old == listeners[c]
              new == listeners'[c]
          IN /\ SelectSeq(new, LAMBDA x : Has(old, x))
                  = SelectSeq(old, LAMBDA x : Has(new, x))
             /\ \A i, j \in 1..Len(new) :
                  (i < j /\ Has(old, new[j])) => Has(old, new[i])]_vars
  /\ [][(Idle /\ call'.op = "subscribe")
          => listeners'[call'.c] =
               IF call'.had THEN listeners[call'.c]
               ELSE Append(listeners[call'.c], callback(call'.k))]_vars
  /\ [](\A p \in DOMAIN passes : \A i \in 1..Len(Invoked(p)) :
          Invoked(p)[i] = passes[p].begin[i])

\* The callback n was subscribed, disconnected and subscribed again, the last
\* time after the hook of T; a pass of A invoked the hook first and n second.
C17_Witness ==
  /\ Returned
  /\ err = "none"
  /\ Len(handles) = 2
  /\ handles[1].cb = callback("n")
  /\ handles[1].used
  /\ handles[2].cb = callback("n")
  /\ ~handles[2].used
  /\ Invoked(1) = <<hook("T", 1), callback("n")>>


\* The value the generator of D returns when S1 and S2 both hold the values
\* their generators return for the value a of A.
ConsistentD(a) ==
  LET atoms == [c \in Cells |-> a]
      sels == [c \in Cells |-> IF c \in {"S1", "S2"}
                                THEN generate(c, atoms).result ELSE a]
  IN generate("D", sels).result

\* The values the subscribers of D were notified with, in order.
NotifiedD ==
  LET es == SelectSeq(log, LAMBDA e : passes[e.pass].cell = "D")
  IN [i \in 1..Len(es) |-> es[i].v]

\* C18 (diamond glitch): D reads S1 and S2, which both read A.  When a
\* setState that changed A has returned, and no earlier call failed, the
\* generator of D has run twice, once per notification of S1 and S2, and D had
\* two passes: the first notified its subscribers with 1, computed from one
\* selector's new value and the other's old one, which the generator of D
\* returns for no value of A; the second with 0, the value D settled on.
C18_DiamondGlitch ==
  (Returned /\ ~threw /\ err = "none" /\ call.c = "A" /\ Ready("D")) =>
    /\ \A a \in Val : ConsistentD(a) = 0
    /\ gens["D"] = 2
    /\ Cardinality(PassesOf("D")) = 2
    /\ \A p, q \in PassesOf("D") :
         p < q => \A i \in 1..Len(log) :
                    /\ log[i].pass = p => log[i].v = 1
                    /\ log[i].pass = q => log[i].v = 0
    /\ Len(NotifiedD) = 2 * Len(listeners["D"])
    /\ value["D"] = 0

\* A component bound to D was notified twice by one setState on A: first with
\* the transient value 1, then with 0.
C18_Witness ==
  /\ Returned
  /\ ~threw
  /\ err = "none"
  /\ call.c = "A"
  /\ mounted["c1"].cell = "D"
  /\ NotifiedD = <<1, 0>>
  /\ value["S1"] = value["S2"]


\* Invocations i and j of this operation are consecutive invocations of one
\* listener by one cell.
Consecutive(i, j) ==
  /\ i < j
  /\ log[i].l = log[j].l
  /\ passes[log[i].pass].cell = passes[log[j].pass].cell
  /\ \A k \in (i + 1)..(j - 1) :
       ~(log[k].l = log[i].l /\ passes[log[k].pass].cell = passes[log[i].pass].cell)

\* C19 as stated (every notification signals a change): the snapshots of a
\* cell at two consecutive invocations of one subscriber by that cell differ,
\* also when subscribers call setState re-entrantly.
C19_Original ==
  \A i, j \in 1..Len(log) : Consecutive(i, j) => log[i].v # log[j].v

\* C19 as amended: a pass of a cell begins only in a step that replaces the
\* value of the cell by another one, and in a call in which no subscriber
\* changes the cell it is notified by, the snapshots at two consecutive
\* invocations of one subscriber by one cell differ.  (After a subscriber has
\* changed the cell re-entrantly, an interrupted pass goes on with the value
\* of that moment, which a nested pass may have delivered already.)
C19_NotificationSignalsChange ==
  /\ [][\A p \in DOMAIN passes' :
          (Idle \/ p \notin DOMAIN passes)
            => value'[passes'[p].cell] # value[passes'[p].cell]]_vars
  /\ [](\A i, j \in 1..Len(log) :
          (Consecutive(i, j) /\ log[i].v = log[j].v) => ChangingCalls # <<>>)

\* A setState of 2 on A: r1 set A to 1 in the outer pass, the nested pass
\* invoked n with 1, and the outer pass then invoked n with 1 again.
C19_Witness ==
  /\ Returned
  /\ err = "none"
  /\ call.n = 2
  /\ passes[1].begin = <<callback("r1"), callback("n")>>
  /\ \E i, j \in 1..Len(log) :
       /\ Consecutive(i, j)
       /\ log[i].l = callback("n")
       /\ log[i].v = 1
       /\ log[j].v = 1
       /\ log[i].pass = 2
       /\ log[j].pass = 1


\* The value the atom of this call was set to last, by the caller or by a
\* subscriber during the call.
LastSet ==
  IF ChangingCalls = <<>> THEN call.n
  ELSE Target(ChangingCalls[Len(ChangingCalls)].l)

\* With the values val, selector s holds a value its generator returns for
\* another value of atom a and cannot return for the present one, for which
\* it throws.
OutOfDate(val, s, a) ==
  /\ generate(s, val).thrown
  /\ \E old \in Val \ {val[a]} :
       LET before == [val EXCEPT ![a] = old]
       IN ~generate(s, before).thrown /\ val[s] = generate(s, before).result

\* C20 (no rollback on downstream failure): the step in which a generator
\* throws changes no value, so that when the setState has ended with the
\* exception the atom holds the value set and, if no call had failed before,
\* the selector, if it was constructed, holds a value computed from another
\* value of the atom;
\* repeating the setState then changes nothing and runs no generator; and the
\* value of a selector changes only in a run of its generator that a pass of
\* one of its dependencies started.
C20_NoRollback ==
  /\ []((Idle /\ call.op = "setState" /\ err = "GeneratorError")
          => value[call.c] = LastSet)
  /\ [][(~Idle /\ err' = "GeneratorError")
          => /\ value' = value
             /\ (~threw /\ Ready(log'[Len(log')].l[2]))
                  => OutOfDate(value', log'[Len(log')].l[2], call.c)]_vars
  /\ [][(Idle /\ call.op = "setState" /\ err = "GeneratorError"
           /\ call'.op = "setState" /\ call'.c = call.c /\ call'.n = call.n
           /\ value[call.c] = call.n)
          => /\ value' = value
             /\ gens' = NoGens
             /\ passes' = <<>>
             /\ err' = "none"]_vars
  /\ [][\A s \in Selectors :
          (Ready(s) /\ value'[s] # value[s])
            => /\ gens'[s] = gens[s] + 1
               /\ \E p \in DOMAIN passes :
                    passes[p].cell \in registeredDeps[s] /\ ~passes[p].done]_vars

\* A.setState(2) ended with the exception of the generator of T and was
\* repeated: the second call changed nothing, A holds 2, T the value it had.
C20_Witness ==
  /\ Idle
  /\ call.op = "setState"
  /\ call.c = "A"
  /\ call.n = 2
  /\ passes = <<>>
  /\ err = "none"
  /\ threw
  /\ value["A"] = 2
  /\ value["B"] = 1
  /\ Ready("T")
  /\ OutOfDate(value, "T", "A")
  /\ Len(listeners["T"]) = 1

====
